---- MODULE Spec2Model ----
(***************************************************************************)
(* Audio AI Voiceover: the PCM-to-WAV encoder and base64 decoder of        *)
(* src/App.tsx, the two remote clients of src/services/geminiService.ts,   *)
(* and the App component's state with its event handlers and the awaited   *)
(* steps of handleProcessAudio.                                            *)
(***************************************************************************)
EXTENDS Integers, Sequences, FiniteSets, TLC

(* ------------------------------ bounds -------------------------------- *)

\* Longest PCM byte sequence handed to createWavBlob in WavSpec.
MaxLen == 4

\* Number of distinct File objects the user can select or drop.
NumFiles == 2

\* Number of object URLs the browser hands out before the user stops.
MaxUrls == 5

VARIABLES
    \* --- React state of App (src/App.tsx:135-141)
    inputAudioFile, inputAudioUrl, transcript, outputAudioUrl,
    isLoading, progressMessage, error,
    \* --- the browser: every object URL created so far (index = the URL),
    \*     the blob it refers to, and the URLs not yet revoked
    objectUrls, live,
    \* --- process.env.API_KEY is set or not
    apiKey,
    \* --- the invocations of handleProcessAudio that have not returned:
    \*     where each is suspended, and its locals
    runs,
    \* --- history: runs started since the last file selection, and whether
    \*     every selection so far was made with no run in flight and was
    \*     followed by at most one run
    runsSinceSelect, sequential,
    \* --- the arguments and the result of a createWavBlob call
    pcmData, sampleRate, numChannels, wavBlob

appVars == <<inputAudioFile, inputAudioUrl, transcript, outputAudioUrl,
             isLoading, progressMessage, error, objectUrls, live, apiKey,
             runs, runsSinceSelect, sequential>>
wavVars == <<pcmData, sampleRate, numChannels, wavBlob>>
vars == <<appVars, wavVars>>

(* ------------------------- bytes and integers -------------------------- *)

\* n as k little-endian base-256 digits (n modulo 256^k).
RECURSIVE Digits(_, _)
Digits(n, k) == IF k = 0 THEN <<>> ELSE <<n % 256>> \o Digits(n \div 256, k - 1)

\* The digits of d times m, one digit longer per carry; m < 2^18 keeps every
\* intermediate below 2^31. sampleRate * blockAlign can pass 2^31, which a
\* JavaScript number holds exactly.
RECURSIVE MulDigits(_, _, _)
MulDigits(d, m, carry) ==
    IF d = <<>>
    THEN IF carry = 0 THEN <<>> ELSE <<carry % 256>> \o MulDigits(<<>>, m, carry \div 256)
    ELSE LET t == Head(d) * m + carry
         IN  <<t % 256>> \o MulDigits(Tail(d), m, t \div 256)

\* d cut or zero-extended to exactly k digits (the value modulo 256^k).
Truncate(d, k) == [i \in 1..k |-> IF i <= Len(d) THEN d[i] ELSE 0]

Reverse(s) == [i \in 1..Len(s) |-> s[Len(s) + 1 - i]]

\* view with bytes written from byte offset off on (offsets count from 0).
WriteAt(view, off, bytes) ==
    [i \in 1..Len(view) |->
        IF i > off /\ i <= off + Len(bytes) THEN bytes[i - off] ELSE view[i]]

\* DataView.prototype.setUint16 / setUint32: the value modulo 2^16 or 2^32,
\* little-endian when asked and big-endian otherwise.
setUint16(view, off, value, littleEndian) ==
    WriteAt(view, off, IF littleEndian THEN Digits(value, 2) ELSE Reverse(Digits(value, 2)))

setUint32IgnoresEndianness(view, off, digits, littleEndian) ==
    WriteAt(view, off, Reverse(Truncate(digits, 4)))

\* value is given by its digits, as byteRate can pass 2^31.
setUint32(view, off, digits, littleEndian) ==
    WriteAt(view, off, IF littleEndian THEN Truncate(digits, 4)
                                       ELSE Reverse(Truncate(digits, 4)))

\* new ArrayBuffer(n): n zero bytes.
ArrayBuffer(n) == [i \in 1..n |-> 0]

\* new Int16Array(buffer): the buffer read as 16-bit signed samples in the
\* platform's (little-endian) byte order.
Int16Array(buffer) ==
    [i \in 1..(Len(buffer) \div 2) |->
        LET u == buffer[2 * i - 1] + 256 * buffer[2 * i]
        IN  IF u >= 32768 THEN u - 65536 ELSE u]

\* The bytes a Blob takes from an Int16Array part: each sample's two bytes
\* in platform order.
Int16Bytes(samples) ==
    [i \in 1..(2 * Len(samples)) |->
        LET s == samples[(i + 1) \div 2]
            u == IF s < 0 THEN s + 65536 ELSE s
        IN  IF i % 2 = 1 THEN u % 256 ELSE u \div 256]

(* ---------------------------- createWavBlob ---------------------------- *)

RangeError == "byte length of Int16Array should be a multiple of 2"

bitsPerSample == 16

DataSizeInSamples(numSamples) == numSamples

\* dataSize = numSamples * (bitsPerSample / 8)
DataSize(numSamples) == numSamples * (bitsPerSample \div 8)

\* The 44 header bytes createWavBlob writes for pcm (an even-length byte
\* sequence), rate and channels.
WavHeader(pcm, rate, channels) ==
    LET numSamples == Len(Int16Array(pcm))
        blockAlign == (channels * bitsPerSample) \div 8
        byteRate   == MulDigits(Digits(rate, 4), blockAlign, 0)
        dataSize   == DataSize(numSamples)
        v0  == ArrayBuffer(44)
        v1  == setUint32(v0, 0, Digits(1380533830, 4), FALSE)   \* "RIFF"
        v2  == setUint32(v1, 4, Digits(36 + dataSize, 4), TRUE)
        v3  == setUint32(v2, 8, Digits(1463899717, 4), FALSE)   \* "WAVE"
        v4  == setUint32(v3, 12, Digits(1718449184, 4), FALSE)  \* "fmt "
        v5  == setUint32(v4, 16, Digits(16, 4), TRUE)
        v6  == setUint16(v5, 20, 1, TRUE)
        v7  == setUint16(v6, 22, channels, TRUE)
        v8  == setUint32(v7, 24, Digits(rate, 4), TRUE)
        v9  == setUint32(v8, 28, byteRate, TRUE)
        v10 == setUint16(v9, 32, blockAlign, TRUE)
        v11 == setUint16(v10, 34, bitsPerSample, TRUE)
        v12 == setUint32(v11, 36, Digits(1684108385, 4), FALSE) \* "data"
        v13 == setUint32(v12, 40, Digits(dataSize, 4), TRUE)
    IN  v13

\* createWavBlob: the Blob's bytes, or the RangeError that new Int16Array
\* throws over a buffer of odd length.
createWavBlob(pcm, rate, channels) ==
    IF Len(pcm) % 2 # 0
    THEN [ok |-> FALSE, bytes |-> <<>>, message |-> RangeError]
    ELSE LET buffer   == [i \in 1..Len(pcm) |-> pcm[i] % 256]  \* setUint8
             pcmInt16 == Int16Array(buffer)
         IN  [ok |-> TRUE,
              bytes |-> WavHeader(pcm, rate, channels) \o Int16Bytes(pcmInt16),
              message |-> ""]

(* ------------------------------- decode -------------------------------- *)

InvalidCharacterError == "The string to be decoded is not correctly encoded."

Base64Alphabet ==
    << "A","B","C","D","E","F","G","H","I","J","K","L","M","N","O","P",
       "Q","R","S","T","U","V","W","X","Y","Z","a","b","c","d","e","f",
       "g","h","i","j","k","l","m","n","o","p","q","r","s","t","u","v",
       "w","x","y","z","0","1","2","3","4","5","6","7","8","9","+","/" >>

IsBase64Char(c) == \E k \in 1..64 : Base64Alphabet[k] = c

Sextet(c) == (CHOOSE k \in 1..64 : Base64Alphabet[k] = c) - 1

AsciiWhitespace == {" "}

RECURSIVE SelectNot(_, _)
SelectNot(s, drop) ==
    IF s = <<>> THEN <<>>
    ELSE IF Head(s) \in drop THEN SelectNot(Tail(s), drop)
         ELSE <<Head(s)>> \o SelectNot(Tail(s), drop)

\* One or two trailing "=" removed from a string whose length divides by 4.
StripPadding(s) ==
    IF Len(s) = 0 \/ Len(s) % 4 # 0 THEN s
    ELSE IF s[Len(s)] # "=" THEN s
    ELSE IF s[Len(s) - 1] # "=" THEN SubSeq(s, 1, Len(s) - 1)
    ELSE SubSeq(s, 1, Len(s) - 2)

\* The bytes of a run of sextets: 24 bits make three bytes; a tail of 12 bits
\* makes one and a tail of 18 bits two, the spare low bits dropped.
RECURSIVE SextetBytes(_)
SextetBytes(sx) ==
    IF Len(sx) = 0 THEN <<>>
    ELSE IF Len(sx) >= 4
    THEN LET n == sx[1] * 262144 + sx[2] * 4096 + sx[3] * 64 + sx[4]
         IN  <<n \div 65536, (n \div 256) % 256, n % 256>>
                 \o SextetBytes(SubSeq(sx, 5, Len(sx)))
    ELSE IF Len(sx) = 2
    THEN <<(sx[1] * 64 + sx[2]) \div 16>>
    ELSE LET n == (sx[1] * 4096 + sx[2] * 64 + sx[3]) \div 4
         IN  <<n \div 256, n % 256>>

\* window.atob: the binary string, as its character codes, or the
\* InvalidCharacterError it throws.
atob(base64) ==
    LET s == StripPadding(SelectNot(base64, AsciiWhitespace))
    IN  IF Len(s) % 4 = 1 \/ \E i \in 1..Len(s) : ~IsBase64Char(s[i])
        THEN [ok |-> FALSE, bytes |-> <<>>, message |-> InvalidCharacterError]
        ELSE [ok |-> TRUE,
              bytes |-> SextetBytes([i \in 1..Len(s) |-> Sextet(s[i])]),
              message |-> ""]

\* decode: bytes[i] = binaryString.charCodeAt(i), stored in a Uint8Array.
decode(base64) ==
    LET binaryString == atob(base64)
    IN  IF ~binaryString.ok THEN binaryString
        ELSE [binaryString EXCEPT
                 !.bytes = [i \in 1..Len(binaryString.bytes) |->
                               binaryString.bytes[i] % 256]]

(* --------------------------- remote provider --------------------------- *)

Files == 1..NumFiles
NoFile == 0
NoUrl == 0
Null == "<null>"
Undefined == "<undefined>"

\* The text the transcription model gives for each file's audio.
TextOf(file) == "transcript of file " \o ToString(file)

\* response.text of the transcription call: the text, an empty text, or none.
TranscriptResponses(file) == {TextOf(file), "", Undefined}

\* response.candidates?.[0]?.content?.parts?.[0]?.inlineData?.data of the
\* synthesis call: absent, empty, four PCM bytes, three PCM bytes, or a
\* string that is not base64.
SpeechResponses ==
    { [present |-> FALSE, data |-> <<>>],
      [present |-> TRUE,  data |-> <<>>],
      [present |-> TRUE,  data |-> <<"A","Q","A","C","A","A","=","=">>],
      [present |-> TRUE,  data |-> <<"A","Q","A","C">>],
      [present |-> TRUE,  data |-> <<"A","!","=","=">>] }

ApiKeyError == "API_KEY environment variable not set"
ProviderError == "provider error"
UnknownError == "An unknown error occurred."
NoAudioError == "Failed to generate audio data."

\* getGenAI: throws when process.env.API_KEY is not set.
getGenAI == IF apiKey THEN [ok |-> TRUE, message |-> ""]
            ELSE [ok |-> FALSE, message |-> ApiKeyError]

\* generateTranscriptFromAudio resolves with response.text, whatever it is.
generateTranscriptFromAudio(text) == text

\* generateSpeechFromText resolves with the inline data, or undefined.
generateSpeechFromText(response) == response

\* The truthiness of the value generateSpeechFromText resolved with.
Truthy(response) == response.present /\ response.data # <<>>

(* ------------------------------ App state ------------------------------ *)

SampleRate == 24000
NumChannels == 1

Held == {inputAudioUrl, outputAudioUrl} \ {NoUrl}

Run(pc, file, text) == [pc |-> pc, file |-> file, generatedTranscript |-> text]

RemoveAt(s, i) == [k \in 1..(Len(s) - 1) |-> IF k < i THEN s[k] ELSE s[k + 1]]

\* URL.createObjectURL: the next URL, referring to the given blob.
CreateObjectURL(blob) ==
    /\ objectUrls' = Append(objectUrls, blob)

NotCalled == "createWavBlob not called"

Init ==
    /\ inputAudioFile = NoFile
    /\ inputAudioUrl = NoUrl
    /\ transcript = ""
    /\ outputAudioUrl = NoUrl
    /\ isLoading = FALSE
    /\ progressMessage = ""
    /\ error = Null
    /\ objectUrls = <<>>
    /\ live = {}
    /\ apiKey \in BOOLEAN
    /\ runs = <<>>
    /\ runsSinceSelect = 0
    /\ sequential = TRUE
    /\ pcmData = <<>>
    /\ sampleRate = SampleRate
    /\ numChannels = NumChannels
    /\ wavBlob = [ok |-> FALSE, bytes |-> <<>>, message |-> NotCalled]

\* Every run in flight may still create its output URL.
UrlsLeft == Len(objectUrls) + Len(runs) < MaxUrls

handleFileChangeKeepsOutput(file) ==
    /\ live' = (live \ {inputAudioUrl}) \cup {Len(objectUrls) + 1}
    /\ inputAudioFile' = file
    /\ CreateObjectURL([blob |-> "file", of |-> file])
    /\ inputAudioUrl' = Len(objectUrls) + 1
    /\ transcript' = ""
    /\ outputAudioUrl' = NoUrl
    /\ error' = Null
    /\ runsSinceSelect' = 0
    /\ sequential' = (sequential /\ runs = <<>>)
    /\ UNCHANGED <<isLoading, progressMessage, apiKey, runs, wavVars>>

\* handleFileChange: revoke the held URLs, install the file and a new
\* preview URL, clear the transcript, the output URL and the error.
handleFileChange(file) ==
    /\ live' = (live \ {inputAudioUrl, outputAudioUrl}) \cup {Len(objectUrls) + 1}
    /\ inputAudioFile' = file
    /\ CreateObjectURL([blob |-> "file", of |-> file])
    /\ inputAudioUrl' = Len(objectUrls) + 1
    /\ transcript' = ""
    /\ outputAudioUrl' = NoUrl
    /\ error' = Null
    /\ runsSinceSelect' = 0
    /\ sequential' = (sequential /\ runs = <<>>)
    /\ UNCHANGED <<isLoading, progressMessage, apiKey, runs, wavVars>>

\* FileUploader.handleChange: the file input, disabled while isLoading.
handleChange ==
    /\ ~isLoading
    /\ UrlsLeft
    /\ \E file \in Files : handleFileChange(file)

\* FileUploader.handleDrop: the drop zone, which does not read disabled.
handleDrop ==
    /\ UrlsLeft
    /\ \E file \in Files : handleFileChange(file)

ProcessButtonAlwaysEnabled == inputAudioUrl # NoUrl

\* The button is rendered once a preview URL exists, disabled={isLoading}.
ProcessButtonEnabled == inputAudioUrl # NoUrl /\ ~isLoading

\* handleProcessAudio up to its first await.
handleProcessAudio ==
    /\ ProcessButtonEnabled
    /\ UrlsLeft
    /\ IF inputAudioFile = NoFile
       THEN UNCHANGED vars
       ELSE /\ isLoading' = TRUE
            /\ error' = Null
            /\ transcript' = ""
            /\ outputAudioUrl' = NoUrl
            /\ progressMessage' = "Reading audio file..."
            /\ runs' = Append(runs, Run("reading", inputAudioFile, Undefined))
            /\ runsSinceSelect' = IF runsSinceSelect < 2 THEN runsSinceSelect + 1 ELSE 2
            /\ sequential' = (sequential /\ runsSinceSelect = 0)
            /\ UNCHANGED <<inputAudioFile, inputAudioUrl, objectUrls, live,
                           apiKey, wavVars>>

CatchFinallyClearsTranscript(i, message) ==
    /\ error' = "Processing failed: " \o message
    /\ isLoading' = FALSE
    /\ progressMessage' = ""
    /\ transcript' = ""
    /\ runs' = RemoveAt(runs, i)
    /\ UNCHANGED <<inputAudioFile, inputAudioUrl, outputAudioUrl,
                   objectUrls, live, apiKey, runsSinceSelect, sequential, wavVars>>

CatchWithoutFinally(i, message) ==
    /\ error' = "Processing failed: " \o message
    /\ runs' = RemoveAt(runs, i)
    /\ UNCHANGED <<inputAudioFile, inputAudioUrl, outputAudioUrl, transcript,
                   isLoading, progressMessage,
                   objectUrls, live, apiKey, runsSinceSelect, sequential, wavVars>>

\* The catch and finally blocks of run i: the error message is set,
\* isLoading and the progress message are reset, and the run returns.
CatchFinally(i, message) ==
    /\ error' = "Processing failed: " \o message
    /\ isLoading' = FALSE
    /\ progressMessage' = ""
    /\ UNCHANGED transcript
    /\ runs' = RemoveAt(runs, i)
    /\ UNCHANGED <<inputAudioFile, inputAudioUrl, outputAudioUrl,
                   objectUrls, live, apiKey, runsSinceSelect, sequential, wavVars>>

\* reader.onload: fileToBase64 resolves; generateTranscriptFromAudio is
\* called and throws at getGenAI or awaits the provider.
FileReaderOnLoad(i) ==
    /\ runs[i].pc = "reading"
    /\ IF ~getGenAI.ok
       THEN CatchFinally(i, getGenAI.message)
       ELSE /\ progressMessage' = "Generating transcript..."
            /\ runs' = [runs EXCEPT ![i].pc = "transcribing"]
            /\ UNCHANGED <<inputAudioFile, inputAudioUrl, transcript, outputAudioUrl,
                           isLoading, error, objectUrls, live, apiKey,
                           runsSinceSelect, sequential, wavVars>>

\* reader.onerror: fileToBase64 rejects with a ProgressEvent, not an Error.
FileReaderOnError(i) ==
    /\ runs[i].pc = "reading"
    /\ CatchFinally(i, UnknownError)

\* The transcription call resolves: setTranscript, then
\* generateSpeechFromText is called with whatever text came back (its
\* getGenAI finds the key that the transcription call found).
TranscriptionResolves(i) ==
    /\ runs[i].pc = "transcribing"
    /\ \E response \in TranscriptResponses(runs[i].file) :
         LET generatedTranscript == generateTranscriptFromAudio(response)
         IN  /\ transcript' = generatedTranscript
             /\ progressMessage' = "Synthesizing audio..."
             /\ runs' = [runs EXCEPT ![i] =
                            Run("synthesizing", runs[i].file, generatedTranscript)]
             /\ UNCHANGED <<inputAudioFile, inputAudioUrl, outputAudioUrl,
                            isLoading, error, objectUrls, live, apiKey,
                            runsSinceSelect, sequential, wavVars>>

\* The transcription call rejects (network, provider).
TranscriptionRejects(i) ==
    /\ runs[i].pc = "transcribing"
    /\ CatchFinally(i, ProviderError)

\* The synthesis call resolves: decode, createWavBlob, createObjectURL and
\* setOutputAudioUrl, or the throw of any of them or of the else branch.
SpeechResolves(i) ==
    /\ runs[i].pc = "synthesizing"
    /\ \E response \in SpeechResponses :
         LET synthesizedAudioData == generateSpeechFromText(response)
             decoded == decode(synthesizedAudioData.data)
             blob == createWavBlob(decoded.bytes, SampleRate, NumChannels)
         IN  IF ~Truthy(synthesizedAudioData) THEN CatchFinally(i, NoAudioError)
             ELSE IF ~decoded.ok THEN CatchFinally(i, decoded.message)
             ELSE IF ~blob.ok THEN CatchFinally(i, blob.message)
             ELSE /\ CreateObjectURL([blob |-> "wav", of |-> runs[i].file])
                  /\ live' = live \cup {Len(objectUrls) + 1}
                  /\ outputAudioUrl' = Len(objectUrls) + 1
                  /\ isLoading' = FALSE
                  /\ progressMessage' = ""
                  /\ runs' = RemoveAt(runs, i)
                  /\ UNCHANGED <<inputAudioFile, inputAudioUrl, transcript, error,
                                 apiKey, runsSinceSelect, sequential, wavVars>>

\* The synthesis call rejects.
SpeechRejects(i) ==
    /\ runs[i].pc = "synthesizing"
    /\ CatchFinally(i, ProviderError)

\* An awaited step of a run in flight settles.
AwaitSettles ==
    \E i \in 1..Len(runs) :
        \/ FileReaderOnLoad(i)
        \/ FileReaderOnError(i)
        \/ TranscriptionResolves(i)
        \/ TranscriptionRejects(i)
        \/ SpeechResolves(i)
        \/ SpeechRejects(i)

Next ==
    \/ handleChange
    \/ handleDrop
    \/ handleProcessAudio
    \/ \E i \in 1..Len(runs) : FileReaderOnLoad(i)
    \/ \E i \in 1..Len(runs) : FileReaderOnError(i)
    \/ \E i \in 1..Len(runs) : TranscriptionResolves(i)
    \/ \E i \in 1..Len(runs) : TranscriptionRejects(i)
    \/ \E i \in 1..Len(runs) : SpeechResolves(i)
    \/ \E i \in 1..Len(runs) : SpeechRejects(i)

Spec == Init /\ [][Next]_vars

\* Every awaited step eventually resolves or rejects.
FairSpec == Spec /\ WF_vars(AwaitSettles)

(* ------------------------ createWavBlob, called ------------------------ *)

PcmBytes == {0, 1, 2, 255}

RECURSIVE SeqsUpTo(_, _)
SeqsUpTo(S, n) ==
    IF n = 0 THEN {<<>>}
    ELSE LET shorter == SeqsUpTo(S, n - 1)
         IN  shorter \cup {Append(s, b) : s \in shorter, b \in S}

SampleRates == {8000, 24000, 44100, 65536, 2147483647}
ChannelCounts == {1, 2, 6, 256, 32767, 32768}

InitWav ==
    /\ inputAudioFile = NoFile
    /\ inputAudioUrl = NoUrl
    /\ transcript = ""
    /\ outputAudioUrl = NoUrl
    /\ isLoading = FALSE
    /\ progressMessage = ""
    /\ error = Null
    /\ objectUrls = <<>>
    /\ live = {}
    /\ apiKey = TRUE
    /\ runs = <<>>
    /\ runsSinceSelect = 0
    /\ sequential = TRUE
    /\ pcmData \in SeqsUpTo(PcmBytes, MaxLen)
    /\ sampleRate \in SampleRates
    /\ numChannels \in ChannelCounts
    /\ wavBlob = [ok |-> FALSE, bytes |-> <<>>, message |-> NotCalled]

CallCreateWavBlob ==
    /\ wavBlob.message = NotCalled
    /\ wavBlob' = createWavBlob(pcmData, sampleRate, numChannels)
    /\ UNCHANGED <<appVars, pcmData, sampleRate, numChannels>>

NextWav == CallCreateWavBlob

WavSpec == InitWav /\ [][NextWav]_vars

(* ------------------------------ properties ----------------------------- *)

\* DataView.prototype.getUint16 / getUint32, little-endian; -1 stands for a
\* 32-bit value of 2^31 or more.
getUint16(bytes, off) == bytes[off + 1] + 256 * bytes[off + 2]

getUint32(bytes, off) ==
    IF bytes[off + 4] >= 128 THEN -1
    ELSE bytes[off + 1] + 256 * bytes[off + 2] + 65536 * bytes[off + 3]
            + 16777216 * bytes[off + 4]

\* d without its high zero digits.
RECURSIVE Normalize(_)
Normalize(d) ==
    IF d # <<>> /\ d[Len(d)] = 0 THEN Normalize(SubSeq(d, 1, Len(d) - 1)) ELSE d

Called == wavBlob.message # NotCalled

\* C1: for every PCM byte sequence of even length, the empty one included,
\* createWavBlob gives 44 + len bytes, whose bytes 4-7 read 36 + len, whose
\* bytes 40-43 read len, and whose bytes from 44 on are the PCM bytes; the
\* empty sequence gives the 44 header bytes alone, with dataSize 0.
C1_WavLayout ==
    (Called /\ Len(pcmData) % 2 = 0) =>
        /\ wavBlob.ok
        /\ Len(wavBlob.bytes) = 44 + Len(pcmData)
        /\ getUint32(wavBlob.bytes, 4) = 36 + Len(pcmData)
        /\ getUint32(wavBlob.bytes, 40) = Len(pcmData)
        /\ SubSeq(wavBlob.bytes, 45, Len(wavBlob.bytes)) = pcmData
        /\ SubSeq(wavBlob.bytes, 1, 4) = <<82, 73, 70, 70>>
        /\ (pcmData = <<>> =>
                /\ Len(wavBlob.bytes) = 44
                /\ SubSeq(wavBlob.bytes, 41, 44) = <<0, 0, 0, 0>>)

\* The example of the specification: four PCM bytes at 24000 Hz, mono.
C1_Witness ==
    /\ Called /\ wavBlob.ok
    /\ pcmData = <<1, 0, 2, 0>> /\ sampleRate = 24000 /\ numChannels = 1
    /\ Len(wavBlob.bytes) = 48

\* A sample rate and channel count are valid when a canonical 16-bit header
\* can hold them: each of the channel count, the block align (channels * 2),
\* the sample rate and the byte rate (sampleRate * channels * 2) fits its
\* field.
ValidFormat(rate, channels) ==
    /\ rate >= 1
    /\ channels >= 1
    /\ channels * 2 <= 65535
    /\ Len(Normalize(MulDigits(MulDigits(Digits(rate, 4), channels, 0), 2, 0))) <= 4

\* C2: for every valid sample rate and channel count, the header read back
\* gives the channel count (bytes 22-23), the sample rate (bytes 24-27) and
\* 16 bits per sample (bytes 34-35), and the derived fields agree: bytes
\* 28-31 are sampleRate * channels * 2 and bytes 32-33 are channels * 2.
C2_FormatRoundTrip ==
    (Called /\ wavBlob.ok /\ ValidFormat(sampleRate, numChannels)) =>
        /\ getUint16(wavBlob.bytes, 22) = numChannels
        /\ getUint32(wavBlob.bytes, 24) = sampleRate
        /\ getUint16(wavBlob.bytes, 34) = 16
        /\ Normalize(SubSeq(wavBlob.bytes, 29, 32))
              = Normalize(MulDigits(MulDigits(Digits(sampleRate, 4), numChannels, 0), 2, 0))
        /\ getUint16(wavBlob.bytes, 32) = numChannels * 2

\* A mono header at 2147483647 Hz, whose byte rate 4294967294 still fits.
C2_Witness ==
    /\ Called /\ wavBlob.ok
    /\ sampleRate = 2147483647 /\ numChannels = 1
    /\ ValidFormat(sampleRate, numChannels)
    /\ SubSeq(wavBlob.bytes, 29, 32) = <<254, 255, 255, 255>>

\* The step in which the one run in flight returns with an error set.
RunFails == Len(runs) = 1 /\ runs' = <<>> /\ error' # Null

\* C3: when transcription succeeded and the synthesis call gives no audio
\* payload, the run ends Failed with the audio-generation message, no
\* output URL, and the run's transcript still set.
C3_NoAudioKeepsTranscript ==
    [][(RunFails /\ runs[1].pc = "synthesizing"
            /\ runs[1].generatedTranscript \notin {"", Undefined}
            /\ error' = "Processing failed: " \o NoAudioError) =>
          /\ ~isLoading'
          /\ outputAudioUrl' = NoUrl
          /\ transcript' = runs[1].generatedTranscript]_vars

\* C4: when a run ends in failure, at any stage, the transcript is empty and
\* the output URL is null.
C4_NoPartialResults ==
    [][RunFails => (transcript' = "" /\ outputAudioUrl' = NoUrl)]_vars

\* C4, amended: when a run ends in failure the output URL is null; the
\* transcript is empty when the failure is at file reading or transcription,
\* and is left as it was when the failure is at synthesis, decoding or WAV
\* encoding.
C4_FailureKeepsTranscriptOnly ==
    [][RunFails =>
          /\ outputAudioUrl' = NoUrl
          /\ (runs[1].pc \in {"reading", "transcribing"} => transcript' = "")
          /\ (runs[1].pc = "synthesizing" => transcript' = transcript)]_vars

\* A run has failed at synthesis and its transcript is displayed.
C4_Witness ==
    /\ ~isLoading /\ runs = <<>>
    /\ error = "Processing failed: " \o RangeError
    /\ transcript = TextOf(inputAudioFile)
    /\ outputAudioUrl = NoUrl

\* C5: every output URL of an earlier run is revoked by the time a later
\* run replaces it, so at most two object URLs are live: the preview and
\* the output.
C5_OutputUrlReleased ==
    /\ \A u \in live : objectUrls[u].blob = "wav" => u = outputAudioUrl
    /\ Cardinality(live) <= 2

\* C6: handleFileChange revokes the preview URL and the output URL it
\* finds held; so after file selections that are each made with no run in
\* flight and followed by at most one run, the URLs not revoked are the
\* held ones, those of the latest selection.
C6_SelectionReleasesHandles ==
    /\ [](sequential => live = Held)
    /\ [][inputAudioUrl' # inputAudioUrl =>
            /\ inputAudioUrl \notin live'
            /\ outputAudioUrl \notin live'
            /\ inputAudioUrl' \in live']_vars

\* The second selection, made after the first one's run completed: the
\* preview URL 1 and the output URL 2 are revoked, URL 3 is live.
C6_Witness ==
    /\ sequential
    /\ Len(objectUrls) = 3
    /\ objectUrls[2].blob = "wav"
    /\ inputAudioUrl = 3
    /\ live = {3}

\* C7: at most one run is in flight, and isLoading is true exactly while
\* one is.
C7_OneRunInFlight ==
    /\ Len(runs) <= 1
    /\ isLoading <=> (runs # <<>>)

\* A file was dropped while the run on the previous file awaits synthesis.
C7_Witness ==
    /\ isLoading
    /\ Len(runs) = 1
    /\ runs[1].pc = "synthesizing"
    /\ inputAudioFile # runs[1].file

\* C8: a transcription response with no text (undefined or empty) fails the
\* run, so the synthesis call is never issued with such a text.
C8_EmptyTranscriptFails ==
    \A i \in 1..Len(runs) :
        runs[i].pc = "synthesizing" =>
            runs[i].generatedTranscript \notin {"", Undefined}

Done == outputAudioUrl # NoUrl /\ error = Null
Failed == error # Null /\ outputAudioUrl = NoUrl
Completed == ~isLoading /\ progressMessage = "" /\ (Done \/ Failed)

\* C9: every started run reaches a state with isLoading false and an empty
\* progress message that is Done (output URL, no error) or Failed (error,
\* no output URL), and that state is the one in which the run ends.
C9_RunCompletes ==
    /\ isLoading ~> Completed
    /\ [][(isLoading /\ ~isLoading') => Completed']_vars

\* A run has completed to Done.
C9_Witness ==
    /\ ~isLoading /\ progressMessage = "" /\ Done
    /\ objectUrls[outputAudioUrl].blob = "wav"

\* C10: a displayed transcript, or output URL, comes from a run on the file
\* now held in inputAudioFile.
C10_ResultsOfCurrentFile ==
    /\ transcript \notin {"", Undefined} => transcript = TextOf(inputAudioFile)
    /\ outputAudioUrl # NoUrl => objectUrls[outputAudioUrl].of = inputAudioFile

====
